---- MODULE Spec2Model ----
(***************************************************************************)
(* Authorization-and-execution pipeline of the AI System Assistant:        *)
(* command schema (commands.py), security policy (policy.py), executor     *)
(* (executor.py) and the dispatcher AIAssistant.process (main.py).         *)
(*                                                                         *)
(* Text is modelled character by character: a Python str is a TLA+ string, *)
(* and str.lower, str.strip, str.split, re.sub and re.search are operators *)
(* computed over its characters.                                           *)
(***************************************************************************)
EXTENDS Integers, Sequences, FiniteSets, TLC

(* ------------------------------------------------------------------ *)
(* Bounds of the model                                                *)
(* ------------------------------------------------------------------ *)

\* number of vocabulary chunks concatenated into one candidate target
MaxChunks == 2

\* the largest number of AIClient.chat calls in a run
MaxChats == 12

\* AIClient.history_limit as __init__ sets it
history_limit == 20

\* AIClient.history_limit as test_memory_limit sets it
test_history_limit == 4

(* ------------------------------------------------------------------ *)
(* Python string primitives                                           *)
(* ------------------------------------------------------------------ *)

\* Python None, for the Optional[str] fields
None == "<None>"

\* the backtick character: a TLA+ string literal cannot hold it, so the
\* model writes the one-character string "^" wherever the program text has
\* a backtick (no other use of "^" occurs)
Backtick == "^"

Char(s, i) == SubSeq(s, i, i)

\* the characters str.strip / str.split / regex \s treat as whitespace
Whitespace == {" ", "\t", "\n"}

IsSpace(c) == c \in Whitespace

UpperChars == "ABCDEFGHIJKLMNOPQRSTUVWXYZ"

LowerChars == "abcdefghijklmnopqrstuvwxyz"

\* str.lower on one character
LowerChar(c) ==
    IF \E i \in 1..26 : Char(UpperChars, i) = c
    THEN Char(LowerChars, CHOOSE i \in 1..26 : Char(UpperChars, i) = c)
    ELSE c

RECURSIVE Lower(_)
\* str.lower
Lower(s) ==
    IF Len(s) <= 1 THEN LowerChar(s)
    ELSE Lower(SubSeq(s, 1, Len(s) \div 2))
             \o Lower(SubSeq(s, Len(s) \div 2 + 1, Len(s)))

RECURSIVE LStrip(_)
\* str.lstrip
LStrip(s) == IF s # "" /\ IsSpace(Head(s)) THEN LStrip(Tail(s)) ELSE s

RECURSIVE RStrip(_)
\* str.rstrip
RStrip(s) ==
    IF s # "" /\ IsSpace(Char(s, Len(s)))
    THEN RStrip(SubSeq(s, 1, Len(s) - 1))
    ELSE s

\* str.strip
Strip(s) == RStrip(LStrip(s))

\* the substring test (sub in s), and re.search of a literal pattern
Contains(s, sub) ==
    \E i \in 1..(Len(s) - Len(sub) + 1) : SubSeq(s, i, i + Len(sub) - 1) = sub

\* str.endswith
EndsWith(s, suffix) ==
    /\ Len(s) >= Len(suffix)
    /\ SubSeq(s, Len(s) - Len(suffix) + 1, Len(s)) = suffix

\* the maximal prefix of s without whitespace
TakeWord(s) ==
    IF \E i \in 1..Len(s) : IsSpace(Char(s, i))
    THEN LET i == CHOOSE k \in 1..Len(s) :
                     /\ IsSpace(Char(s, k))
                     /\ \A j \in 1..(k - 1) : ~IsSpace(Char(s, j))
         IN  SubSeq(s, 1, i - 1)
    ELSE s

\* s.split()[0] if s has a word, "" otherwise
FirstWord(s) == TakeWord(LStrip(s))

\* not s.split(): s has no word
NoWords(s) == LStrip(s) = ""

RECURSIVE SplitOn(_, _)
\* str.split(sep) for a one-character separator: the sequence of fields
SplitOn(s, sep) ==
    IF \E i \in 1..Len(s) : Char(s, i) = sep
    THEN LET i == CHOOSE k \in 1..Len(s) :
                     /\ Char(s, k) = sep
                     /\ \A j \in 1..(k - 1) : Char(s, j) # sep
         IN  <<SubSeq(s, 1, i - 1)>> \o SplitOn(SubSeq(s, i + 1, Len(s)), sep)
    ELSE <<s>>

(* ------------------------------------------------------------------ *)
(* commands.py: the command schema                                    *)
(* ------------------------------------------------------------------ *)

\* CommandType: the values of the enumeration
CommandType ==
    {"start_app", "kill_process", "list_processes", "restart_service",
     "shell_query"}

\* the character class of re.sub in validate_target
MetaChars ==
    {";", "&", "|", Backtick, "$", "(", ")", "{", "}", "[", "]", "<", ">", "!",
     "\\", "\"", "'"}

\* the length limit of validate_target
MaxTargetLen == 256

RECURSIVE Sanitize(_)
\* re.sub of the character class ; & | backtick $ ( ) { } [ ] < > ! \ " '
\* by the empty string
Sanitize(v) ==
    IF Len(v) <= 1 THEN (IF v \in MetaChars THEN "" ELSE v)
    ELSE Sanitize(SubSeq(v, 1, Len(v) \div 2))
             \o Sanitize(SubSeq(v, Len(v) \div 2 + 1, Len(v)))

\* validate_target with the length limit applied to the value as given,
\* before the metacharacters are removed
validate_target_raw_length(v) ==
    IF v = "" \/ Strip(v) = ""
    THEN [ok |-> FALSE, value |-> None, error |-> "Target cannot be empty"]
    ELSE IF Len(v) > MaxTargetLen
    THEN [ok |-> FALSE, value |-> None,
          error |-> "Target too long (max 256 characters)"]
    ELSE [ok |-> TRUE, value |-> Strip(Sanitize(v)), error |-> None]

\* CommandRequest.validate_target: [ok, value] or [ok = FALSE, error]
validate_target(v) ==
    IF v = "" \/ Strip(v) = ""
    THEN [ok |-> FALSE, value |-> None, error |-> "Target cannot be empty"]
    ELSE IF Len(Sanitize(v)) > MaxTargetLen
    THEN [ok |-> FALSE, value |-> None,
          error |-> "Target too long (max 256 characters)"]
    ELSE [ok |-> TRUE, value |-> Strip(Sanitize(v)), error |-> None]

\* validate_action without lower(): CommandType(v)
validate_action_exact(v) ==
    IF v \in CommandType
    THEN [ok |-> TRUE, value |-> v, error |-> None]
    ELSE [ok |-> FALSE, value |-> None,
          error |-> "Invalid action '" \o v \o "'"]

\* CommandRequest.validate_action on a str: CommandType(v.lower())
validate_action(v) ==
    IF Lower(v) \in CommandType
    THEN [ok |-> TRUE, value |-> Lower(v), error |-> None]
    ELSE [ok |-> FALSE, value |-> None,
          error |-> "Invalid action '" \o v \o "'"]

\* CommandRequest(**candidate): every field validator runs; the request
\* exists only if all of them pass
CommandRequest(cand) ==
    LET a == validate_action(cand.action)
        t == validate_target(cand.target)
    IN  IF a.ok /\ t.ok
        THEN [ok |-> TRUE, action |-> a.value, target |-> t.value,
              parameters |-> cand.parameters, error |-> None]
        ELSE [ok |-> FALSE, action |-> None, target |-> None,
              parameters |-> cand.parameters,
              error |-> IF a.ok THEN t.error ELSE a.error]

(* ------------------------------------------------------------------ *)
(* policy.py: the security policy                                     *)
(* ------------------------------------------------------------------ *)

BLOCKED_COMMANDS ==
    {"rm", "rmdir", "shred", "unlink",
     "mkfs", "dd", "fdisk", "parted", "gdisk",
     "mount", "umount", "losetup",
     "useradd", "userdel", "usermod", "passwd", "chpasswd",
     "groupadd", "groupdel", "groupmod",
     "chmod", "chown", "chgrp", "setfacl",
     "iptables", "ip6tables", "nft", "ufw", "firewall-cmd",
     "sudo", "su", "pkexec", "doas",
     "reboot", "shutdown", "poweroff", "halt", "init", "telinit",
     "wget", "curl",
     "nc", "netcat", "ncat",
     "python", "python3", "perl", "ruby", "bash", "sh", "zsh",
     "eval", "exec",
     "crontab", "at", "batch",
     "insmod", "rmmod", "modprobe"}

ALLOWED_SHELL_COMMANDS ==
    {"ps", "pgrep", "pidof",
     "grep", "egrep", "fgrep",
     "top", "htop",
     "free", "df", "du",
     "uptime", "uname", "hostname",
     "cat", "head", "tail", "less", "more",
     "ls", "find", "locate",
     "wc", "sort", "uniq",
     "date", "cal",
     "who", "w", "last",
     "systemctl status",
     "journalctl"}

PROTECTED_SERVICES ==
    {"systemd", "init", "dbus", "udev",
     "NetworkManager", "networking",
     "sshd", "ssh",
     "gdm", "lightdm", "sddm"}

\* the set critical_processes local to _validate_kill_process
critical_processes ==
    {"init", "systemd", "dbus", "udev", "kernel",
     "kthreadd", "kworker", "ksoftirqd"}

\* the messages of BLOCKED_PATTERNS, in the order of the list
BLOCKED_PATTERNS ==
    <<"Shell command chaining is not allowed",
      "Command substitution is not allowed",
      "Backtick command substitution is not allowed",
      "Output redirection to root filesystem is not allowed",
      "Parent directory traversal is not allowed",
      "Direct access to /etc is not allowed",
      "Access to root home directory is not allowed",
      "Direct device access is not allowed",
      "Direct proc access is not allowed",
      "Direct sys access is not allowed">>

\* re.search(r">\s*\/", s)
RedirectToRoot(s) ==
    \E i \in 1..Len(s) :
        /\ Char(s, i) = ">"
        /\ \E j \in (i + 1)..Len(s) :
               /\ Char(s, j) = "/"
               /\ \A k \in (i + 1)..(j - 1) : IsSpace(Char(s, k))

\* _compiled_patterns[i].search(s): the i-th pattern of BLOCKED_PATTERNS,
\* compiled with re.IGNORECASE
PatternSearch(i, s) ==
    CASE i = 1 -> \E k \in 1..Len(s) : Char(s, k) \in {";", "&", "|"}
      [] i = 2 -> Contains(s, "$(")
      [] i = 3 -> Contains(s, Backtick)
      [] i = 4 -> RedirectToRoot(s)
      [] i = 5 -> Contains(s, "..")
      [] i = 6 -> Contains(Lower(s), "/etc/")
      [] i = 7 -> Contains(Lower(s), "/root")
      [] i = 8 -> Contains(Lower(s), "/dev/")
      [] i = 9 -> Contains(Lower(s), "/proc/")
      [] i = 10 -> Contains(Lower(s), "/sys/")

\* PolicyResult(allowed=True)
Allowed == [allowed |-> TRUE, raised |-> FALSE, message |-> None, rule |-> None]

\* raise PolicyViolationError(message, command, rule)
PolicyViolationError(message, rule) ==
    [allowed |-> FALSE, raised |-> TRUE, message |-> message, rule |-> rule]

\* the loop over self._compiled_patterns of the
\* start_app, kill_process and restart_service validators
CheckPatterns(target) ==
    IF \E i \in 1..Len(BLOCKED_PATTERNS) : PatternSearch(i, target)
    THEN LET i == CHOOSE k \in 1..Len(BLOCKED_PATTERNS) :
                     /\ PatternSearch(k, target)
                     /\ \A j \in 1..(k - 1) : ~PatternSearch(j, target)
         IN  PolicyViolationError(BLOCKED_PATTERNS[i], "dangerous_pattern")
    ELSE Allowed

\* _validate_start_app with the two checks in the other order
_validate_start_app_patterns_first(request) ==
    LET target == Strip(Lower(request.target))
        first_word == IF target # "" THEN FirstWord(target) ELSE ""
    IN  IF CheckPatterns(target).raised THEN CheckPatterns(target)
        ELSE IF first_word \in BLOCKED_COMMANDS
        THEN PolicyViolationError(
                 "Starting '" \o first_word \o "' is not allowed",
                 "blocked_application")
        ELSE Allowed

_validate_start_app(request) ==
    LET target == Strip(Lower(request.target))
        first_word == IF target # "" THEN FirstWord(target) ELSE ""
    IN  IF first_word \in BLOCKED_COMMANDS
        THEN PolicyViolationError(
                 "Starting '" \o first_word \o "' is not allowed",
                 "blocked_application")
        ELSE CheckPatterns(target)

\* _validate_kill_process comparing the target as given, without lower()
_validate_kill_process_case_sensitive(request) ==
    LET target == Strip(request.target)
    IN  IF target \in critical_processes
        THEN PolicyViolationError(
                 "Killing '" \o target
                     \o "' is not allowed - critical system process",
                 "protected_process")
        ELSE CheckPatterns(target)

_validate_kill_process(request) ==
    LET target == Strip(Lower(request.target))
    IN  IF target \in critical_processes
        THEN PolicyViolationError(
                 "Killing '" \o target
                     \o "' is not allowed - critical system process",
                 "protected_process")
        ELSE CheckPatterns(target)

\* _validate_list_processes with the dangerous patterns searched in the
\* target, as the validators of the other actions do
_validate_list_processes_patterns(request) ==
    CheckPatterns(Strip(Lower(request.target)))

_validate_list_processes(request) == Allowed

\* _validate_restart_service with the protected names matched as substrings
_validate_restart_service_substring(request) ==
    LET lowered == Strip(Lower(request.target))
        target == IF EndsWith(lowered, ".service")
                  THEN SubSeq(lowered, 1, Len(lowered) - 8)
                  ELSE lowered
    IN  IF \E name \in PROTECTED_SERVICES : Contains(target, name)
        THEN PolicyViolationError(
                 "Restarting '" \o target
                     \o "' is not allowed - protected service",
                 "protected_service")
        ELSE CheckPatterns(target)

_validate_restart_service(request) ==
    LET lowered == Strip(Lower(request.target))
        target == IF EndsWith(lowered, ".service")
                  THEN SubSeq(lowered, 1, Len(lowered) - 8)
                  ELSE lowered
    IN  IF target \in PROTECTED_SERVICES
        THEN PolicyViolationError(
                 "Restarting '" \o target
                     \o "' is not allowed - protected service",
                 "protected_service")
        ELSE CheckPatterns(target)

\* re.split(r'\s*\|\s*', target): the fields between pipes, without the
\* whitespace that touches a pipe
SplitPipes(target) ==
    LET raw == SplitOn(target, "|")
    IN  [i \in 1..Len(raw) |->
            LET left == IF i > 1 THEN LStrip(raw[i]) ELSE raw[i]
            IN  IF i < Len(raw) THEN RStrip(left) ELSE left]

\* the base-command test done against the blocklist instead of the allowlist
BaseCmdAllowed_blocklist(base_cmd) == base_cmd \notin BLOCKED_COMMANDS

\* the test of the loop over ALLOWED_SHELL_COMMANDS
BaseCmdAllowed(base_cmd) ==
    \E allowed_cmd \in ALLOWED_SHELL_COMMANDS :
        base_cmd = allowed_cmd \/ base_cmd = FirstWord(allowed_cmd)

\* the loop over the compiled patterns inside _validate_shell_query, where
\* the chaining pattern is replaced by a search for [;&]
ShellPatternSearch(i, part) ==
    IF i = 1
    THEN \E k \in 1..Len(part) : Char(part, k) \in {";", "&"}
    ELSE PatternSearch(i, part)

CheckShellPatterns(part) ==
    IF \E i \in 1..Len(BLOCKED_PATTERNS) : ShellPatternSearch(i, part)
    THEN LET i == CHOOSE k \in 1..Len(BLOCKED_PATTERNS) :
                     /\ ShellPatternSearch(k, part)
                     /\ \A j \in 1..(k - 1) : ~ShellPatternSearch(j, part)
         IN  PolicyViolationError(
                 IF i = 1 THEN "Command chaining with ; or & is not allowed"
                          ELSE BLOCKED_PATTERNS[i],
                 "dangerous_pattern")
    ELSE Allowed

\* one iteration of the loop over parts
CheckPart(part) ==
    IF NoWords(Strip(part)) THEN Allowed
    ELSE LET base_cmd == Lower(FirstWord(Strip(part)))
         IN  IF ~BaseCmdAllowed(base_cmd)
             THEN PolicyViolationError(
                      "Shell command '" \o base_cmd
                          \o "' is not in the allowed list",
                      "disallowed_shell_command")
             ELSE CheckShellPatterns(part)

RECURSIVE CheckParts(_, _)
\* the loop over parts, from index i: the first part that raises
\* decides
CheckParts(parts, i) ==
    IF i > Len(parts) THEN Allowed
    ELSE IF CheckPart(parts[i]).raised THEN CheckPart(parts[i])
    ELSE CheckParts(parts, i + 1)

\* _validate_shell_query with the dangerous patterns searched in the whole
\* target first, the pipe included, as the other validators do
_validate_shell_query_whole_target(request) ==
    IF CheckPatterns(Strip(request.target)).raised
    THEN CheckPatterns(Strip(request.target))
    ELSE CheckParts(SplitPipes(Strip(request.target)), 1)

_validate_shell_query(request) ==
    CheckParts(SplitPipes(Strip(request.target)), 1)

\* validate_command without its else branch: an action outside the five
\* kinds falls through and nothing is returned or raised
validate_command_partial(request) ==
    CASE request.action = "start_app" -> _validate_start_app(request)
      [] request.action = "kill_process" -> _validate_kill_process(request)
      [] request.action = "list_processes" -> _validate_list_processes(request)
      [] request.action = "restart_service" -> _validate_restart_service(request)
      [] request.action = "shell_query" -> _validate_shell_query(request)
      [] OTHER -> [allowed |-> FALSE, raised |-> FALSE, message |-> None,
                   rule |-> None]

\* SecurityPolicy.validate_command
validate_command(request) ==
    CASE request.action = "start_app" -> _validate_start_app(request)
      [] request.action = "kill_process" -> _validate_kill_process(request)
      [] request.action = "list_processes" -> _validate_list_processes(request)
      [] request.action = "restart_service" -> _validate_restart_service(request)
      [] request.action = "shell_query" -> _validate_shell_query(request)
      [] OTHER -> PolicyViolationError(
                      "Unknown command type: " \o request.action,
                      "unknown_command_type")

(* ------------------------------------------------------------------ *)
(* Inputs: what the language model may answer                         *)
(* ------------------------------------------------------------------ *)

\* first chunk of a candidate target
HeadChunks ==
    {"", " ", ";|&", "firefox", "nginx", "systemd", "INIT", "sshd",
     "NetworkManager", "kworker", "rm -rf /", "ps aux", "PS aux",
     "ps aux | grep ", "systemctl restart "}

\* chunks appended to the first one
TailChunks ==
    {".service", " /etc/passwd", "; rm -rf /", " && ls", " | grep x",
     "$(whoami)", "^whoami^", "nginx"}

RECURSIVE TargetsOf(_)
\* the targets made of a first chunk and at most n appended chunks
TargetsOf(n) ==
    IF n = 0 THEN HeadChunks
    ELSE TargetsOf(n - 1) \cup
         {t \o c : t \in TargetsOf(n - 1), c \in TailChunks}

Targets == TargetsOf(MaxChunks - 1)

RECURSIVE Repeat(_, _)
\* n copies of the string c
Repeat(c, n) ==
    IF n = 0 THEN ""
    ELSE IF n = 1 THEN c
    ELSE Repeat(c, n \div 2) \o Repeat(c, n - n \div 2)

\* candidate targets around the length limit of validate_target: at the
\* limit, one over it, and over it only by metacharacters or whitespace
LongTargets ==
    {Repeat("a", MaxTargetLen),
     Repeat("a", MaxTargetLen + 1),
     Repeat("a", MaxTargetLen) \o ";",
     Repeat("a", MaxTargetLen - 1) \o "$(",
     "ps " \o Repeat("a", MaxTargetLen - 2) \o "|&",
     " " \o Repeat("a", MaxTargetLen)}

\* the parameters mapping: its "signal" and "filter" entries (None: absent)
NoParameters == [signal |-> None, filter |-> None]

\* the commands the model answers with a parameters mapping
WithParameters ==
    {[present |-> TRUE, action |-> "kill_process", target |-> t,
      parameters |-> [signal |-> "KILL", filter |-> None]] :
        t \in {"firefox", "INIT"}}
    \cup
    {[present |-> TRUE, action |-> "list_processes", target |-> "all",
      parameters |-> [signal |-> None, filter |-> f]] :
        f \in {"cpu", "memory", "name"}}

\* process-name patterns the model answers with for kill_process
KillPatterns == {"system"}

\* action strings the model answers with besides the canonical ones
OtherActions == {"KILL_PROCESS", "Shell_Query", "format_disk", "start_app "}

\* the "command" object of the envelope; present = FALSE is JSON null
NoCandidate ==
    [present |-> FALSE, action |-> None, target |-> None,
     parameters |-> NoParameters]

Candidates ==
    {[present |-> TRUE, action |-> a, target |-> t, parameters |-> NoParameters] :
        a \in CommandType, t \in Targets}
    \cup WithParameters
    \cup
    {[present |-> TRUE, action |-> "kill_process", target |-> t,
      parameters |-> NoParameters] : t \in KillPatterns}
    \cup
    {[present |-> TRUE, action |-> a, target |-> t, parameters |-> NoParameters] :
        a \in {"start_app", "shell_query"}, t \in LongTargets}
    \cup
    {[present |-> TRUE, action |-> a, target |-> t, parameters |-> NoParameters] :
        a \in OtherActions, t \in {"firefox", "rm -rf /", " "}}

\* the envelopes: every candidate without error, and the error and
\* cannot_process variants around a few commands
Envelopes ==
    {[command |-> c, error |-> None, cannot_process |-> FALSE] :
        c \in Candidates \cup {NoCandidate}}
    \cup
    {[command |-> c, error |-> e, cannot_process |-> b] :
        c \in {NoCandidate,
               [present |-> TRUE, action |-> "start_app", target |-> "firefox",
                parameters |-> NoParameters],
               [present |-> TRUE, action |-> "start_app", target |-> " ",
                parameters |-> NoParameters]},
        e \in {None, "", "I cannot do that"},
        b \in BOOLEAN}

\* the ways OllamaLLM.query fails before an envelope is parsed
LLMFailures ==
    {"Ollama error: Unknown error",
     "LLM request timed out after 30 seconds",
     "LLM did not return valid JSON"}

(* ------------------------------------------------------------------ *)
(* config.py and executor.py                                          *)
(* ------------------------------------------------------------------ *)

\* Config.max_output_lines
max_output_lines == 100

\* Config.command_timeout
command_timeout == 60

\* the default of the timeout parameter of create_executor
default_timeout == 60

\* the timeouts a caller hands to create_executor
Timeouts == {default_timeout, 5}

\* Config.from_env: the configuration read from the environment
from_env(env_dry_run) ==
    [dry_run |-> env_dry_run, command_timeout |-> command_timeout,
     max_output_lines |-> max_output_lines]

\* SafeExecutor.__init__: `context or ExecutionContext(...)`; hasContext
\* tells whether a context object was passed (an ExecutionContext is truthy)
SafeExecutor(hasContext, context, cfg) ==
    [context |-> IF hasContext THEN context
                 ELSE [dry_run |-> cfg.dry_run, timeout |-> cfg.command_timeout],
     max_output_lines |-> cfg.max_output_lines]

\* create_executor(dry_run, timeout)
create_executor(dry_run, timeout, cfg) ==
    SafeExecutor(TRUE, [dry_run |-> dry_run, timeout |-> timeout], cfg)

\* CommandResponse; exit_code is the empty set for None and {n} for n;
\* stdout_lines counts the lines of captured standard output kept in output
\* and marker tells whether the truncation line was appended
CommandResponse(request, success, output, stdout_lines, marker, error, exit_code) ==
    [success |-> success, action |-> request.action, target |-> request.target,
     output |-> output, stdout_lines |-> stdout_lines, marker |-> marker,
     error |-> error, exit_code |-> exit_code]

\* the value of response before the executor ran
NoResponse ==
    [success |-> FALSE, action |-> None, target |-> None, output |-> None,
     stdout_lines |-> 0, marker |-> FALSE, error |-> None, exit_code |-> {}]

\* what became of a child by the time the executor returns.
\* subprocess.run returned: the child ended with status rc, having written
\* stderr to its standard error, and was waited for; lines counts the lines
\* of standard output captured from it
ExitedWith(rc, stderr) ==
    [timed_out |-> FALSE, state |-> "reaped", status |-> {rc},
     stderr |-> stderr, lines |-> 0]

\* the same for a child whose standard error is empty or not looked at
Exited(rc) == ExitedWith(rc, "")

\* subprocess.run raised TimeoutExpired: it has killed the child and waited
\* for it before raising
KilledOnTimeout ==
    [timed_out |-> TRUE, state |-> "reaped", status |-> {}, stderr |-> "",
     lines |-> 0]

\* subprocess.Popen(start_new_session=True), never waited for
Detached ==
    [timed_out |-> FALSE, state |-> "running", status |-> {}, stderr |-> "",
     lines |-> 0]

\* one way an execution can go: the response, the child processes it
\* started, in order, and what became of each
OutcomeOf(resp, effects, fates) ==
    [resp |-> resp, effects |-> effects, children |-> fates]

\* an execution all of whose children ended within their time, the i-th
\* with status statuses[i]
Ran(resp, effects, statuses) ==
    OutcomeOf(resp, effects, [i \in 1..Len(effects) |-> Exited(statuses[i])])

\* an execution that started no child
Outcome(resp, effects) == Ran(resp, effects, <<>>)

\* an execution whose last child ran into the timeout of subprocess.run,
\* after the earlier ones ended with the statuses given
TimeoutOutcome(resp, effects, statuses) ==
    OutcomeOf(resp, effects,
              [i \in 1..Len(effects) |->
                  IF i = Len(effects) THEN KilledOnTimeout
                  ELSE Exited(statuses[i])])

\* the dry-run branch of SafeExecutor.execute
DryRunOutcome(request) ==
    Outcome(CommandResponse(request, TRUE,
                "[DRY RUN] Would execute: " \o request.action \o " on "
                    \o request.target,
                0, FALSE, None, {}),
            <<>>)

\* the `except Exception` handler of SafeExecutor.execute: a branch whose
\* tool cannot be started raises before any child exists
ExceptionOutcome(request) ==
    Outcome(CommandResponse(request, FALSE, None, 0, FALSE,
                "[Errno 2] No such file or directory", {}),
            <<>>)

_execute_start_app(request) ==
    LET app_name == Strip(request.target)
        started(pre, statuses, tool) ==
            OutcomeOf(CommandResponse(request, TRUE,
                          "Started '" \o app_name \o "' (PID: <pid>)",
                          0, FALSE, None, {0}),
                      pre \o <<tool>>,
                      [i \in 1..Len(pre) |-> Exited(statuses[i])]
                          \o <<Detached>>)
        failed(pre, statuses) ==
            Ran(CommandResponse(request, FALSE, None, 0, FALSE,
                    "Failed to start '" \o app_name \o "': <exception>", {}),
                pre, statuses)
    IN  \* found by shutil.which, directly or under one of the bin paths
        {started(<<>>, <<>>, "launch"), failed(<<>>, <<>>)}
        \cup
        \* only the .desktop path is left: `test -f` is run
        {started(<<"test -f">>, <<0>>, "gtk-launch"),
         failed(<<"test -f">>, <<0>>),
         Ran(CommandResponse(request, FALSE, None, 0, FALSE,
                 "Application '" \o app_name \o "' not found", {}),
             <<"test -f">>, <<1>>)}

\* processes of an Ubuntu session that `pgrep -f` and `pkill -f` choose
\* from: the name of each and its full command line
ProcessTable ==
    {[name |-> "systemd", cmdline |-> "/sbin/init splash"],
     [name |-> "systemd", cmdline |-> "/lib/systemd/systemd --user"],
     [name |-> "firefox", cmdline |-> "/usr/lib/firefox/firefox"],
     [name |-> "nginx", cmdline |-> "nginx: master process /usr/sbin/nginx"]}

\* the processes `pgrep -f pattern` and `pkill -f pattern` select: those
\* whose full command line has a match of the pattern (patterns here are
\* plain text, which matches where it occurs)
MatchedByPattern(pattern) ==
    {p \in ProcessTable : Contains(p.cmdline, pattern)}

\* the exit statuses of pgrep: matched, nothing matched, syntax error
PgrepStatuses == {0, 1, 2}

\* the exit statuses of pkill: signalled, nothing matched, fatal error
PkillStatuses == {0, 1, 3}

\* _execute_kill_process without the lookup: the signal is sent at once
_execute_kill_process_no_lookup(request) ==
    LET process_name == Strip(request.target)
        signal == IF request.parameters.signal # None
                  THEN request.parameters.signal ELSE "TERM"
        pkill == "pkill -" \o signal \o " -f"
    IN  {TimeoutOutcome(CommandResponse(request, FALSE, None, 0, FALSE,
                            "Operation timed out", {}),
                        <<pkill>>, <<>>),
         Ran(CommandResponse(request, TRUE,
                 "Killed processes matching '" \o process_name \o "'",
                 0, FALSE, None, {0}),
             <<pkill>>, <<0>>)}
        \cup
        {Ran(CommandResponse(request, FALSE, None, 0, FALSE,
                 "Failed to kill process: <stderr>", {rc}),
             <<pkill>>, <<rc>>) : rc \in PkillStatuses \ {0}}

_execute_kill_process(request) ==
    LET process_name == Strip(request.target)
        signal == IF request.parameters.signal # None
                  THEN request.parameters.signal ELSE "TERM"
        pgrep == "pgrep -f"
        pkill == "pkill -" \o signal \o " -f"
        timed_out(effects, statuses) ==
            TimeoutOutcome(CommandResponse(request, FALSE, None, 0, FALSE,
                               "Operation timed out", {}),
                           effects, statuses)
    IN  {timed_out(<<pgrep>>, <<>>), timed_out(<<pgrep, pkill>>, <<0>>)}
        \cup
        {Ran(CommandResponse(request, FALSE, None, 0, FALSE,
                 "No process found matching '" \o process_name \o "'", {}),
             <<pgrep>>, <<rc>>) : rc \in PgrepStatuses \ {0}}
        \cup
        {Ran(CommandResponse(request, TRUE,
                 "Killed " \o ToString(n) \o " process(es) matching '"
                     \o process_name \o "'",
                 0, FALSE, None, {0}),
             <<pgrep, pkill>>, <<0, 0>>) : n \in 1..2}
        \cup
        {Ran(CommandResponse(request, FALSE, None, 0, FALSE,
                 "Failed to kill process: <stderr>", {rc}),
             <<pgrep, pkill>>, <<0, rc>>) : rc \in PkillStatuses \ {0}}

\* the numbers of lines a child may write to standard output
StdoutSizes == {0, 1, max_output_lines, max_output_lines + 1}

\* how a child that ends in time may end: the lines it wrote to standard
\* output, its exit status and its standard error
ChildRuns ==
    {[lines |-> n, rc |-> 0, stderr |-> ""] : n \in StdoutSizes}
    \cup
    {[lines |-> 0, rc |-> 1, stderr |-> ""],
     [lines |-> 1, rc |-> 1, stderr |-> "boom"],
     [lines |-> max_output_lines + 1, rc |-> 1, stderr |-> "boom"]}

\* len(stdout.strip().split('\n')): an empty output still splits into one
\* (empty) line
SplitLines(n) == IF n = 0 THEN 1 ELSE n

\* the child of subprocess.run(..., capture_output=True) after the run
Captured(run) ==
    [ExitedWith(run.rc, run.stderr) EXCEPT !.lines = run.lines]

\* _execute_list_processes cutting the output as soon as it has
\* max_output_lines lines
_execute_list_processes_early_cut(request, executor) ==
    LET cmd == CASE request.parameters.filter = "cpu" -> "ps aux --sort=-%cpu"
                 [] request.parameters.filter = "memory" -> "ps aux --sort=-%mem"
                 [] OTHER -> "ps aux"
    IN  {TimeoutOutcome(CommandResponse(request, FALSE, None, 0, FALSE,
                            "Operation timed out", {}),
                        <<cmd>>, <<>>)}
        \cup
        {OutcomeOf(CommandResponse(request, TRUE, "<stdout>",
                       IF run.lines = 0 THEN 0
                       ELSE IF SplitLines(run.lines) >= executor.max_output_lines
                       THEN executor.max_output_lines
                       ELSE SplitLines(run.lines),
                       SplitLines(run.lines) >= executor.max_output_lines,
                       None, {run.rc}),
                   <<cmd>>, <<Captured(run)>>) : run \in ChildRuns}

_execute_list_processes(request, executor) ==
    LET cmd == CASE request.parameters.filter = "cpu" -> "ps aux --sort=-%cpu"
                 [] request.parameters.filter = "memory" -> "ps aux --sort=-%mem"
                 [] OTHER -> "ps aux"
    IN  {TimeoutOutcome(CommandResponse(request, FALSE, None, 0, FALSE,
                            "Operation timed out", {}),
                        <<cmd>>, <<>>)}
        \cup
        {OutcomeOf(CommandResponse(request, TRUE, "<stdout>",
                       IF run.lines = 0 THEN 0
                       ELSE IF SplitLines(run.lines) > executor.max_output_lines
                       THEN executor.max_output_lines
                       ELSE SplitLines(run.lines),
                       SplitLines(run.lines) > executor.max_output_lines,
                       None, {run.rc}),
                   <<cmd>>, <<Captured(run)>>) : run \in ChildRuns}

\* the exit statuses of `systemctl status` that are not the not-found
\* status 4: the unit is active, or loaded and not running
UnitStatuses == {0, 3}

\* _execute_restart_service without the test of the not-found status: the
\* restart is issued whatever the status query said
_execute_restart_service_unchecked(request) ==
    LET stripped == Strip(request.target)
        service_name == IF EndsWith(stripped, ".service") THEN stripped
                        ELSE stripped \o ".service"
        response(success, output, error, exit_code) ==
            CommandResponse(request, success, output, 0, FALSE, error,
                            exit_code)
        status == "systemctl status"
        restart == "systemctl restart"
    IN  UNION {
            {Ran(response(TRUE,
                     "Successfully restarted '" \o service_name \o "'",
                     None, {0}),
                 <<status, restart>>, <<st, 0>>),
             Ran(response(FALSE, None, "Failed to restart service", {1}),
                 <<status, restart>>, <<st, 1>>)} :
            st \in UnitStatuses \cup {4}}

_execute_restart_service(request) ==
    LET stripped == Strip(request.target)
        service_name == IF EndsWith(stripped, ".service") THEN stripped
                        ELSE stripped \o ".service"
        response(success, output, error, exit_code) ==
            CommandResponse(request, success, output, 0, FALSE, error,
                            exit_code)
        timed_out == response(FALSE, None, "Operation timed out", {})
        status == "systemctl status"
        restart == "systemctl restart"
    IN  {TimeoutOutcome(timed_out, <<status>>, <<>>),
         Ran(response(FALSE, None,
                 "Service '" \o service_name \o "' not found", {}),
             <<status>>, <<4>>)}
        \cup
        UNION {
            {TimeoutOutcome(timed_out, <<status, restart>>, <<st>>),
             Ran(response(TRUE,
                     "Successfully restarted '" \o service_name \o "'",
                     None, {0}),
                 <<status, restart>>, <<st, 0>>)}
            \cup
            {OutcomeOf(response(FALSE, None,
                     IF Contains(stderr, "Access denied")
                        \/ Contains(Lower(stderr), "authentication required")
                     THEN "Permission denied. Service management requires root privileges."
                     ELSE IF Strip(stderr) # "" THEN Strip(stderr)
                     ELSE "Failed to restart service",
                     {1}),
                 <<status, restart>>,
                 <<Exited(st), ExitedWith(1, stderr)>>) :
                stderr \in {"", "Access denied",
                            "Interactive Authentication Required.",
                            "Job for unit failed"}} :
            st \in UnitStatuses}

\* _execute_shell_query waiting for the shell with Popen.wait(timeout) and
\* returning on TimeoutExpired without killing it
_execute_shell_query_abandon(request, executor) ==
    {OutcomeOf(CommandResponse(request, FALSE, None, 0, FALSE,
                   "Command timed out after "
                       \o ToString(executor.context.timeout) \o " seconds",
                   {}),
               <<"sh -c">>,
               <<[timed_out |-> TRUE, state |-> "running", status |-> {},
                  stderr |-> "", lines |-> 0]>>)}
    \cup
    {OutcomeOf(CommandResponse(request, run.rc = 0,
                   IF run.lines = 0 THEN "(no output)" ELSE "<stdout>",
                   IF run.lines = 0 THEN 0
                   ELSE IF SplitLines(run.lines) > executor.max_output_lines
                   THEN executor.max_output_lines ELSE SplitLines(run.lines),
                   SplitLines(run.lines) > executor.max_output_lines,
                   IF run.rc # 0 THEN Strip(run.stderr) ELSE None,
                   {run.rc}),
               <<"sh -c">>, <<Captured(run)>>) : run \in ChildRuns}

_execute_shell_query(request, executor) ==
    {TimeoutOutcome(CommandResponse(request, FALSE, None, 0, FALSE,
                        "Command timed out after "
                            \o ToString(executor.context.timeout) \o " seconds",
                        {}),
                    <<"sh -c">>, <<>>)}
    \cup
    {OutcomeOf(CommandResponse(request, run.rc = 0,
                   IF run.lines = 0 THEN "(no output)" ELSE "<stdout>",
                   IF run.lines = 0 THEN 0
                   ELSE IF SplitLines(run.lines) > executor.max_output_lines
                   THEN executor.max_output_lines ELSE SplitLines(run.lines),
                   SplitLines(run.lines) > executor.max_output_lines,
                   IF run.rc # 0 THEN Strip(run.stderr) ELSE None,
                   {run.rc}),
               <<"sh -c">>, <<Captured(run)>>) : run \in ChildRuns}

\* execute without the test of context.dry_run
execute_without_dry_run(request, executor) ==
    {ExceptionOutcome(request)} \cup
    CASE request.action = "start_app" -> _execute_start_app(request)
      [] request.action = "kill_process" -> _execute_kill_process(request)
      [] request.action = "list_processes" ->
             _execute_list_processes(request, executor)
      [] request.action = "restart_service" ->
             _execute_restart_service(request)
      [] OTHER -> _execute_shell_query(request, executor)

\* SafeExecutor.execute: the ways the call can go
execute(request, executor) ==
    IF executor.context.dry_run
    THEN {DryRunOutcome(request)}
    ELSE {ExceptionOutcome(request)} \cup
         CASE request.action = "start_app" -> _execute_start_app(request)
           [] request.action = "kill_process" -> _execute_kill_process(request)
           [] request.action = "list_processes" ->
                  _execute_list_processes(request, executor)
           [] request.action = "restart_service" ->
                  _execute_restart_service(request)
           [] request.action = "shell_query" ->
                  _execute_shell_query(request, executor)
           [] OTHER ->
                  {Outcome(CommandResponse(request, FALSE, None, 0, FALSE,
                               "Unknown action type: " \o request.action, {}),
                           <<>>)}

(* ------------------------------------------------------------------ *)
(* ai.py: parsing the answer of the language model                    *)
(* ------------------------------------------------------------------ *)

\* the command of an AIResponse that has none
NoCommand ==
    [ok |-> FALSE, action |-> None, target |-> None,
     parameters |-> NoParameters, error |-> None]

\* the envelope of a query that produced none
NoEnvelope == [command |-> NoCandidate, error |-> None, cannot_process |-> FALSE]

\* LLMResult(success=False, error=...)
LLMFailure(error) ==
    [success |-> FALSE, error |-> error, command |-> NoCommand,
     response_error |-> None, cannot_process |-> FALSE]

\* OllamaLLM._parse_response on a JSON envelope: AIResponse.model_validate
\* validates the nested command, then model_post_init runs
_parse_response(data) ==
    LET command == IF data.command.present THEN CommandRequest(data.command)
                   ELSE NoCommand
    IN  IF data.command.present /\ ~command.ok
        THEN LLMFailure("Error parsing LLM response: " \o command.error)
        ELSE IF ~data.command.present /\ data.error = None
                /\ ~data.cannot_process
        THEN LLMFailure("Error parsing LLM response: Response must have "
                        \o "either a command, an error, or cannot_process=true")
        ELSE [success |-> TRUE, error |-> None, command |-> command,
              response_error |-> data.error,
              cannot_process |-> data.cannot_process]

(* ------------------------------------------------------------------ *)
(* main.py and cli.py: the assistant                                  *)
(* ------------------------------------------------------------------ *)

VARIABLES
    pc,             \* where the program is: boot, idle, the stage of process, exited
    mode,           \* "single" or "interactive" (cli.main), "library" otherwise
    config,         \* the global Config
    executor,       \* AIAssistant.executor
    data,           \* the envelope the language model answered with
    llm_result,     \* LLMResult of the current request
    command,        \* the CommandRequest handed to policy and executor
    policy_result,  \* the verdict of SecurityPolicy.validate_command
    response,       \* the CommandResponse of the executor
    effects,        \* the child processes the executor started, in order
    children,       \* what became of each of them when the executor returned
    trace,          \* the stages the current request went through, in order
    result,         \* the AssistantResult of the current request
    exit_code,      \* the exit status of the process: {} while it runs
    client,         \* the AIClient of ubuntu-ai-assistant: history and limit
    messages,       \* the messages of the latest ollama.chat call
    said            \* every message appended to client.history so far

vars ==
    <<pc, mode, config, executor, data, llm_result, command, policy_result,
      response, effects, children, trace, result, exit_code,
      client, messages, said>>

\* AssistantResult
AssistantResult(success, message, has_command, has_response, error) ==
    [success |-> success, message |-> message, has_command |-> has_command,
     has_response |-> has_response, error |-> error]

\* no result yet
NoResult ==
    [success |-> FALSE, message |-> None, has_command |-> FALSE,
     has_response |-> FALSE, error |-> None]

\* the verdict before the policy ran
NoVerdict ==
    [allowed |-> FALSE, raised |-> FALSE, message |-> None, rule |-> None]

\* the per-request variables at the start of a request
FreshRequest ==
    /\ data = NoEnvelope
    /\ llm_result = LLMFailure(None)
    /\ command = NoCommand
    /\ policy_result = NoVerdict
    /\ response = NoResponse
    /\ effects = <<>>
    /\ children = <<>>
    /\ trace = <<>>
    /\ result = NoResult

\* the variables of ai-system-assistant before any of its code ran
Boot ==
    /\ pc = "boot"
    /\ mode = "library"
    /\ config = from_env(FALSE)
    /\ executor = SafeExecutor(FALSE, [dry_run |-> FALSE, timeout |-> 0],
                               from_env(FALSE))
    /\ FreshRequest
    /\ exit_code = {}

\* AIClient.__init__
AIClient_init ==
    [history |-> <<>>, history_limit |-> history_limit]

\* no chat call was made
NoChat ==
    /\ messages = <<>>
    /\ said = <<>>

Init ==
    /\ Boot
    /\ client = AIClient_init
    /\ NoChat

\* AIAssistant.__init__: `executor or create_executor()`
AIAssistant_executor(hasExecutor, given, cfg) ==
    IF hasExecutor THEN given
    ELSE create_executor(FALSE, default_timeout, cfg)

\* cli.main up to create_assistant(config=config): the configuration comes
\* from the environment, --dry-run sets config.dry_run, then the assistant
\* is built without an executor argument
main ==
    /\ pc = "boot"
    /\ \E env_dry_run \in BOOLEAN, arg_dry_run \in BOOLEAN,
          arg_command \in BOOLEAN :
          LET cfg == [from_env(env_dry_run) EXCEPT
                         !.dry_run = IF arg_dry_run THEN TRUE ELSE @]
          IN  /\ config' = cfg
              /\ executor' = AIAssistant_executor(FALSE, executor, cfg)
              /\ mode' = IF arg_command THEN "single" ELSE "interactive"
    /\ pc' = "idle"
    /\ UNCHANGED <<data, llm_result, command, policy_result, response,
                   effects, children,
                   trace, result, exit_code,
                   client, messages, said>>

\* AIAssistant(executor=create_executor(dry_run=...)): a caller that builds
\* the executor itself
AIAssistant_init ==
    /\ pc = "boot"
    /\ \E dry_run \in BOOLEAN, timeout \in Timeouts :
          LET cfg == from_env(FALSE)
          IN  /\ config' = cfg
              /\ executor' = AIAssistant_executor(TRUE,
                                 create_executor(dry_run, timeout, cfg),
                                 cfg)
    /\ mode' = "library"
    /\ pc' = "idle"
    /\ UNCHANGED <<data, llm_result, command, policy_result, response,
                   effects, children,
                   trace, result, exit_code,
                   client, messages, said>>

\* the requests a caller can hand to process: cli.main takes an empty
\* command argument for no argument, and run_interactive skips empty lines
UserInputs ==
    CASE mode = "single" -> {"  ", "restart nginx"}
      [] mode = "interactive" -> {"restart nginx"}
      [] OTHER -> {"", "  ", "restart nginx"}

\* AIAssistant.process, the input check: an empty request ends here
process_begin ==
    /\ pc = "idle"
    /\ \E user_input \in UserInputs :
          IF user_input = "" \/ Strip(user_input) = ""
          THEN /\ result' = AssistantResult(FALSE, "Empty input provided",
                               FALSE, FALSE,
                               "Please provide a command or request")
               /\ pc' = "done"
          ELSE /\ result' = result
               /\ pc' = "query"
    /\ UNCHANGED <<mode, config, executor, data, llm_result, command,
                   policy_result, response, effects, children,
                   trace, exit_code,
                   client, messages, said>>

\* step 1, self.llm.query: the model fails, or answers an envelope that
\* _parse_response validates against the schema
llm_query ==
    /\ pc = "query"
    /\ \/ \E error \in LLMFailures :
             /\ data' = NoEnvelope
             /\ llm_result' = LLMFailure(error)
             /\ trace' = trace \o <<"llm">>
       \/ \E envelope \in Envelopes :
             /\ data' = envelope
             /\ llm_result' = _parse_response(envelope)
             /\ trace' = trace \o <<"llm">>
                    \o (IF envelope.command.present THEN <<"schema">> ELSE <<>>)
    /\ pc' = "check"
    /\ UNCHANGED <<mode, config, executor, command, policy_result, response,
                   effects, children,
                   result, exit_code,
                   client, messages, said>>

\* check_response asking the language model again when its answer could not
\* be used
check_response_retry ==
    /\ pc = "check"
    /\ IF ~llm_result.success
       THEN /\ result' = result
            /\ command' = command
            /\ pc' = "query"
       ELSE IF llm_result.cannot_process
       THEN /\ result' = AssistantResult(FALSE, "Cannot process this request",
                             FALSE, FALSE,
                             IF llm_result.response_error \notin {None, ""}
                             THEN llm_result.response_error
                             ELSE "Request outside supported capabilities")
            /\ command' = command
            /\ pc' = "done"
       ELSE IF llm_result.response_error \notin {None, ""}
       THEN /\ result' = AssistantResult(FALSE, "AI could not fulfill request",
                             FALSE, FALSE, llm_result.response_error)
            /\ command' = command
            /\ pc' = "done"
       ELSE IF ~llm_result.command.ok
       THEN /\ result' = AssistantResult(FALSE, "No command generated",
                             FALSE, FALSE,
                             "AI did not generate a valid command")
            /\ command' = command
            /\ pc' = "done"
       ELSE /\ command' = llm_result.command
            /\ result' = result
            /\ pc' = "policy"
    /\ UNCHANGED <<mode, config, executor, data, llm_result, policy_result,
                   response, effects, children,
                   trace, exit_code,
                   client, messages, said>>

\* step 2 of process: the checks on the parsed answer
check_response ==
    /\ pc = "check"
    /\ IF ~llm_result.success
       THEN /\ result' = AssistantResult(FALSE,
                             "Failed to process request with AI",
                             FALSE, FALSE, llm_result.error)
            /\ command' = command
            /\ pc' = "done"
       ELSE IF llm_result.cannot_process
       THEN /\ result' = AssistantResult(FALSE, "Cannot process this request",
                             FALSE, FALSE,
                             IF llm_result.response_error \notin {None, ""}
                             THEN llm_result.response_error
                             ELSE "Request outside supported capabilities")
            /\ command' = command
            /\ pc' = "done"
       ELSE IF llm_result.response_error \notin {None, ""}
       THEN /\ result' = AssistantResult(FALSE, "AI could not fulfill request",
                             FALSE, FALSE, llm_result.response_error)
            /\ command' = command
            /\ pc' = "done"
       ELSE IF ~llm_result.command.ok
       THEN /\ result' = AssistantResult(FALSE, "No command generated",
                             FALSE, FALSE,
                             "AI did not generate a valid command")
            /\ command' = command
            /\ pc' = "done"
       ELSE /\ command' = llm_result.command
            /\ result' = result
            /\ pc' = "policy"
    /\ UNCHANGED <<mode, config, executor, data, llm_result, policy_result,
                   response, effects, children,
                   trace, exit_code,
                   client, messages, said>>

\* policy_step with the verdict ignored: the command goes on to the
\* executor whatever the policy said
policy_step_unchecked ==
    /\ pc = "policy"
    /\ policy_result' = validate_command(command)
    /\ trace' = trace \o <<"policy">>
    /\ result' = result
    /\ pc' = "execute"
    /\ UNCHANGED <<mode, config, executor, data, llm_result, command,
                   response, effects, children,
                   exit_code,
                   client, messages, said>>

\* step 3 of process: self.policy.validate_command(command)
policy_step ==
    /\ pc = "policy"
    /\ policy_result' = validate_command(command)
    /\ trace' = trace \o <<"policy">>
    /\ IF policy_result'.raised
       THEN /\ result' = AssistantResult(FALSE,
                             "Command blocked by security policy",
                             TRUE, FALSE, policy_result'.message)
            /\ pc' = "done"
       ELSE IF ~policy_result'.allowed
       THEN /\ result' = AssistantResult(FALSE, "Command blocked by policy",
                             TRUE, FALSE, policy_result'.message)
            /\ pc' = "done"
       ELSE /\ result' = result
            /\ pc' = "execute"
    /\ UNCHANGED <<mode, config, executor, data, llm_result, command,
                   response, effects, children,
                   exit_code,
                   client, messages, said>>

\* step 4 of process: self.executor.execute(command)
execute_step ==
    /\ pc = "execute"
    /\ \E o \in execute(command, executor) :
          /\ response' = o.resp
          /\ effects' = effects \o o.effects
          /\ children' = children \o o.children
    /\ trace' = trace \o <<"execute">>
    /\ pc' = "report"
    /\ UNCHANGED <<mode, config, executor, data, llm_result, command,
                   policy_result, result, exit_code,
                   client, messages, said>>

\* step 5 of process: the result built from the response
report ==
    /\ pc = "report"
    /\ result' = IF response.success
                 THEN AssistantResult(TRUE,
                          "Successfully executed: " \o command.action,
                          TRUE, TRUE, None)
                 ELSE AssistantResult(FALSE, "Command execution failed",
                          TRUE, TRUE, response.error)
    /\ pc' = "done"
    /\ UNCHANGED <<mode, config, executor, data, llm_result, command,
                   policy_result, response, effects, children,
                   trace, exit_code,
                   client, messages, said>>

\* run_single_command returning 0 whatever the result, as cli.main does
\* after run_interactive
run_single_command_zero ==
    /\ pc = "done"
    /\ mode = "single"
    /\ exit_code' = {0}
    /\ pc' = "exited"
    /\ UNCHANGED <<mode, config, executor, data, llm_result, command,
                   policy_result, response, effects, children,
                   trace, result,
                   client, messages, said>>

\* cli.run_single_command: the exit status after the one request
run_single_command ==
    /\ pc = "done"
    /\ mode = "single"
    /\ exit_code' = IF result.success THEN {0} ELSE {1}
    /\ pc' = "exited"
    /\ UNCHANGED <<mode, config, executor, data, llm_result, command,
                   policy_result, response, effects, children,
                   trace, result,
                   client, messages, said>>

\* the requests a library caller hands to the module function
\* validate_command of policy.py: built by CommandRequest, or built without
\* validation, with any action and target
DirectRequests ==
    {[ok |-> TRUE, action |-> a, target |-> t, parameters |-> NoParameters,
      error |-> None] :
        a \in CommandType \cup {"format_disk"},
        t \in {"firefox", "INIT", "rm -rf /", "ps aux | grep x",
               "ls && reboot", "reboot && ls", "cat /etc/passwd"}}

\* policy.validate_command(request): the global policy evaluates a request
\* outside of process
policy_validate_command ==
    /\ pc = "idle"
    /\ mode = "library"
    /\ \E request \in DirectRequests :
          /\ command' = request
          /\ policy_result' = validate_command(request)
    /\ pc' = "evaluated"
    /\ UNCHANGED <<mode, config, executor, data, llm_result, response,
                   effects, children, trace, result, exit_code,
                   client, messages, said>>

\* cli.run_interactive, or a library caller: the next request starts afresh
next_request ==
    /\ pc \in {"done", "evaluated"}
    /\ mode # "single"
    /\ pc' = "idle"
    /\ data' = NoEnvelope
    /\ llm_result' = LLMFailure(None)
    /\ command' = NoCommand
    /\ policy_result' = NoVerdict
    /\ response' = NoResponse
    /\ effects' = <<>>
    /\ children' = <<>>
    /\ trace' = <<>>
    /\ result' = NoResult
    /\ UNCHANGED <<mode, config, executor, exit_code,
                   client, messages, said>>

Next ==
    \/ main
    \/ AIAssistant_init
    \/ process_begin
    \/ policy_validate_command
    \/ llm_query
    \/ check_response
    \/ policy_step
    \/ execute_step
    \/ report
    \/ run_single_command
    \/ next_request

Spec == Init /\ [][Next]_vars

(* ------------------------------------------------------------------ *)
(* ubuntu-ai-assistant/ai_client.py: the chat history                 *)
(* ------------------------------------------------------------------ *)

\* one entry of AIClient.history
Message(role, content) == [role |-> role, content |-> content]

\* the slice seq[-n:]; n = 0 selects the whole list
LastN(seq, n) ==
    IF n = 0 \/ n >= Len(seq) THEN seq
    ELSE SubSeq(seq, Len(seq) - n + 1, Len(seq))

\* how ollama.chat ends: with a reply, or by raising
ChatOutcomes == {"reply", "raise"}

\* the number of chat calls made so far
Chats == Cardinality({i \in 1..Len(said) : said[i].role = "user"})

\* test_memory_limit lowering the limit of a fresh client
set_history_limit ==
    /\ said = <<>>
    /\ client.history_limit # test_history_limit
    /\ client' = [client EXCEPT !.history_limit = test_history_limit]
    /\ UNCHANGED <<pc, mode, config, executor, data, llm_result, command,
                   policy_result, response, effects, children, trace, result,
                   exit_code, messages, said>>

\* AIClient.chat pruning only once the history is two over the limit
chat_prune_late ==
    /\ Chats < MaxChats
    /\ \E outcome \in ChatOutcomes :
          LET user == Message("user", ToString(Chats + 1))
              reply == Message("assistant", "Ack")
              appended == Append(client.history, user)
              pruned == IF Len(appended) > client.history_limit + 1
                        THEN LastN(appended, client.history_limit)
                        ELSE appended
          IN  /\ messages' = pruned
              /\ client' = [client EXCEPT !.history =
                               IF outcome = "reply" THEN Append(pruned, reply)
                               ELSE pruned]
              /\ said' = IF outcome = "reply" THEN said \o <<user, reply>>
                         ELSE Append(said, user)
    /\ UNCHANGED <<pc, mode, config, executor, data, llm_result, command,
                   policy_result, response, effects, children, trace, result,
                   exit_code>>

\* AIClient.chat: the user message is appended, the history pruned to its
\* last history_limit entries, a copy of it passed to ollama.chat, and the
\* reply appended; when ollama.chat raises, the user message stays
chat ==
    /\ Chats < MaxChats
    /\ \E outcome \in ChatOutcomes :
          LET user == Message("user", ToString(Chats + 1))
              reply == Message("assistant", "Ack")
              appended == Append(client.history, user)
              pruned == IF Len(appended) > client.history_limit
                        THEN LastN(appended, client.history_limit)
                        ELSE appended
          IN  /\ messages' = pruned
              /\ client' = [client EXCEPT !.history =
                               IF outcome = "reply" THEN Append(pruned, reply)
                               ELSE pruned]
              /\ said' = IF outcome = "reply" THEN said \o <<user, reply>>
                         ELSE Append(said, user)
    /\ UNCHANGED <<pc, mode, config, executor, data, llm_result, command,
                   policy_result, response, effects, children, trace, result,
                   exit_code>>

ChatNext ==
    \/ set_history_limit
    \/ chat

ChatSpec == Init /\ [][ChatNext]_vars

(* ------------------------------------------------------------------ *)
(* Properties                                                         *)
(* ------------------------------------------------------------------ *)

\* stage e occurs in the trace of the current request
InTrace(e) == \E i \in 1..Len(trace) : trace[i] = e

\* every occurrence of stage b in the trace has an occurrence of a before it
Precedes(a, b) ==
    \A j \in 1..Len(trace) :
        trace[j] = b => \E i \in 1..(j - 1) : trace[i] = a

\* the policy has just decided on the command of the current request; the
\* command and the verdict stay as they are until the request ends
Decided ==
    /\ pc \in {"execute", "done"}
    /\ Len(trace) = 3
    /\ trace[3] = "policy"

\* the verdict is a denial
Denied == policy_result.raised \/ ~policy_result.allowed

\* some dangerous pattern matches s
Dangerous(s) == \E i \in 1..Len(BLOCKED_PATTERNS) : PatternSearch(i, s)

\* C1: within one request the executor runs only after the policy allowed
\* the same command, and the policy runs only on a command that passed schema
\* validation; a candidate that fails validation is never policy-evaluated
\* and a denied command never reaches the executor or starts a child process.
C1_StagesInOrder ==
    /\ InTrace("execute") =>
          /\ Precedes("policy", "execute")
          /\ policy_result.allowed /\ ~policy_result.raised
          /\ response.action = command.action
          /\ response.target = command.target
    /\ InTrace("policy") =>
          /\ Precedes("schema", "policy")
          /\ data.command.present
          /\ command.ok
          /\ command = llm_result.command
    /\ Decided =>
          /\ command.action = Lower(data.command.action)
          /\ command.target = Strip(Sanitize(data.command.target))
    /\ (data.command.present /\ ~llm_result.command.ok) => ~InTrace("policy")
    /\ (InTrace("policy") /\ Denied) =>
          (~InTrace("execute") /\ effects = <<>>)
    /\ pc \in {"execute", "report"} => (InTrace("policy") /\ ~Denied)
    /\ effects # <<>> => InTrace("execute")

\* C1 witness: a request went through schema validation, an allow verdict and
\* the executor, in this order
C1_Witness ==
    /\ trace = <<"llm", "schema", "policy", "execute">>
    /\ policy_result.allowed
    /\ effects # <<>>

\* C2: when the dry-run flag is set in the configuration before cli.main
\* creates the assistant, the executor of the assistant is in dry-run mode:
\* an executed command starts no child process and gets the [DRY RUN] outcome.
C2_ConfiguredDryRunIsDryRun ==
    (mode \in {"single", "interactive"} /\ pc # "boot" /\ config.dry_run) =>
        /\ executor.context.dry_run
        /\ pc = "report" =>
              /\ effects = <<>>
              /\ response = DryRunOutcome(command).resp

\* C3: with context.dry_run set, execute returns a successful outcome whose
\* output names the action and the target, and starts no child process,
\* whatever the action and the target are.
C3_DryRunHasNoEffect ==
    (pc = "report" /\ executor.context.dry_run) =>
        /\ response.success
        /\ response.error = None
        /\ Contains(response.output, "[DRY RUN]")
        /\ Contains(response.output, command.action)
        /\ Contains(response.output, command.target)
        /\ effects = <<>>

\* C3 witness: a kill_process command was executed in dry-run mode
C3_Witness ==
    /\ pc = "report"
    /\ executor.context.dry_run
    /\ command.action = "kill_process"
    /\ command.target = "firefox"

\* the pipe-separated segments of the current target that hold a word
Segments ==
    LET parts == SplitPipes(Strip(command.target))
    IN  {parts[i] : i \in {j \in 1..Len(parts) : ~NoWords(parts[j])}}

\* the entries the specification lists as allowed shell commands
AllowedShellCommands ==
    {"ps", "pgrep", "pidof", "grep", "egrep", "fgrep", "top", "htop", "free",
     "df", "du", "uptime", "uname", "hostname", "cat", "head", "tail", "less",
     "more", "ls", "find", "locate", "wc", "sort", "uniq", "date", "cal",
     "who", "w", "last", "systemctl status", "journalctl"}

\* the first token of the segment, lowercased, starts an allowed entry
BaseAllowed(part) ==
    Lower(FirstWord(part)) \in {FirstWord(e) : e \in AllowedShellCommands}

\* the candidate target holds a command substitution
HasSubstitution(t) == Contains(t, Backtick) \/ Contains(t, "$(")

\* C4: a shell_query built through CommandRequest from a candidate target
\* that contains a backtick or "$(" is denied by the policy with a reason
\* that mentions "substitution", whichever allowed commands wrap it.
C4_SubstitutionDenied ==
    (Decided /\ command.action = "shell_query"
        /\ HasSubstitution(data.command.target)
        /\ \A part \in Segments : BaseAllowed(part)) =>
        /\ policy_result.raised
        /\ Contains(Lower(policy_result.message), "substitution")

\* the candidate target has a chaining character between two commands
ChainsCommands(t) ==
    \E k \in 1..Len(t) :
        /\ Char(t, k) \in {";", "&", "|"}
        /\ ~NoWords(Sanitize(SubSeq(t, 1, k - 1)))
        /\ ~NoWords(Sanitize(SubSeq(t, k + 1, Len(t))))

\* C5: a start_app built through CommandRequest from a candidate target that
\* chains commands with ; & or | is denied by the policy, with a reason that
\* mentions "chaining".
C5_ChainingDenied ==
    (Decided /\ command.action = "start_app"
        /\ ChainsCommands(data.command.target)) =>
        /\ policy_result.raised
        /\ Contains(Lower(policy_result.message), "chaining")

\* the names the specification lists as protected services
ProtectedServiceNames ==
    {"systemd", "init", "dbus", "udev", "NetworkManager", "networking",
     "sshd", "ssh", "gdm", "lightdm", "sddm"}

\* C6: restart_service is denied with rule protected_service and a reason
\* mentioning "protected" for every protected service name, bare or with the
\* ".service" suffix.
C6_ProtectedServicesDenied ==
    (Decided /\ command.action = "restart_service"
        /\ \E name \in ProtectedServiceNames :
               command.target \in {name, name \o ".service"}) =>
        /\ policy_result.raised
        /\ policy_result.rule = "protected_service"
        /\ Contains(Lower(policy_result.message), "protected")

\* the verdict of the policy on the current command with its target replaced
VerdictOn(target) == validate_command([command EXCEPT !.target = target])

\* C7 as stated: restart_service on a name that is not in the protected set
\* and matches no dangerous pattern is allowed, with and without ".service".
C7_NotInSetAllowed ==
    (Decided /\ command.action = "restart_service"
        /\ command.target \notin ProtectedServiceNames
        /\ ~Dangerous(command.target)) =>
        /\ policy_result.allowed
        /\ VerdictOn(command.target \o ".service").allowed

\* s without a trailing ".service"
WithoutSuffix(s) ==
    IF EndsWith(s, ".service") THEN SubSeq(s, 1, Len(s) - 8) ELSE s

\* name is a protected service name up to the case of its letters, with or
\* without the ".service" suffix
IsProtectedName(name) ==
    \E p \in ProtectedServiceNames :
        WithoutSuffix(Lower(Strip(name))) = Lower(p)

\* C7 amended: restart_service on a name that is not a protected service name
\* in any spelling of upper and lower case, with or without the suffix, and
\* that matches no dangerous pattern is allowed, and the verdict for the name
\* with ".service" appended is the same.
C7_UnprotectedAllowed ==
    (Decided /\ command.action = "restart_service"
        /\ ~IsProtectedName(command.target)
        /\ ~Dangerous(command.target)) =>
        /\ policy_result.allowed /\ ~policy_result.raised
        /\ VerdictOn(command.target \o ".service") = policy_result

\* C7 witness: an unprotected name that contains a protected one was allowed
C7_Witness ==
    /\ Decided
    /\ command.action = "restart_service"
    /\ command.target = "sshdnginx"
    /\ policy_result.allowed

\* the programs the specification lists as blocked for start_app
BlockedBinaries ==
    {"rm", "rmdir", "shred", "unlink", "mkfs", "dd", "fdisk", "parted",
     "gdisk", "mount", "umount", "losetup", "useradd", "userdel", "usermod",
     "passwd", "chpasswd", "groupadd", "groupdel", "groupmod", "chmod",
     "chown", "chgrp", "setfacl", "iptables", "ip6tables", "nft", "ufw",
     "firewall-cmd", "sudo", "su", "pkexec", "doas", "reboot", "shutdown",
     "poweroff", "halt", "init", "telinit", "wget", "curl", "nc", "netcat",
     "ncat", "python", "python3", "perl", "ruby", "bash", "sh", "zsh",
     "eval", "exec", "crontab", "at", "batch", "insmod", "rmmod", "modprobe"}

\* C8: a start_app whose lowercased first token is a blocked binary is denied
\* with rule blocked_application and a reason saying "not allowed", also when
\* the target matches a dangerous pattern.
C8_BlockedBinaryDenied ==
    (Decided /\ command.action = "start_app"
        /\ Lower(FirstWord(command.target)) \in BlockedBinaries) =>
        /\ policy_result.raised
        /\ policy_result.rule = "blocked_application"
        /\ Contains(policy_result.message, "not allowed")

\* C8 witness: a blocked binary with a dangerous pattern in its arguments
C8_Witness ==
    /\ Decided
    /\ command.action = "start_app"
    /\ command.target = "rm -rf / /etc/passwd"
    /\ Dangerous(command.target)
    /\ policy_result.rule = "blocked_application"

\* the process names the specification lists as protected
ProtectedProcessNames ==
    {"init", "systemd", "dbus", "udev", "kernel", "kthreadd", "kworker",
     "ksoftirqd"}

\* C9: kill_process is denied with rule protected_process exactly when the
\* lowercased, trimmed target is a protected process name; any other target
\* that matches no dangerous pattern is allowed.
C9_ProtectedProcessDenied ==
    (Decided /\ command.action = "kill_process") =>
        /\ Strip(Lower(command.target)) \in ProtectedProcessNames =>
              /\ policy_result.raised
              /\ policy_result.rule = "protected_process"
        /\ (Strip(Lower(command.target)) \notin ProtectedProcessNames
               /\ ~Dangerous(command.target)) =>
              /\ policy_result.allowed /\ ~policy_result.raised
        /\ policy_result.rule = "protected_process" =>
              Strip(Lower(command.target)) \in ProtectedProcessNames

\* C9 witness: a protected name in upper case was denied
C9_Witness ==
    /\ Decided
    /\ command.action = "kill_process"
    /\ command.target = "INIT"
    /\ policy_result.rule = "protected_process"

SecondWord(s) ==
    LET t == LStrip(s)
    IN  FirstWord(SubSeq(t, Len(TakeWord(t)) + 1, Len(t)))

\* C11: a shell_query with a segment whose first token is systemctl and whose
\* subcommand is not status (restart, stop, start) is denied by the policy.
C11_SystemctlOnlyStatus ==
    (Decided /\ command.action = "shell_query"
        /\ \E part \in Segments :
               /\ Lower(FirstWord(part)) = "systemctl"
               /\ SecondWord(part) # "status") =>
        Denied

\* the pipe-separated segments of t that hold a word
SegmentsOf(t) ==
    LET parts == SplitPipes(Strip(t))
    IN  {parts[i] : i \in {j \in 1..Len(parts) : ~NoWords(parts[j])}}

\* the segment starts with an entry of the allowed set as the specification
\* lists it: one of the one-word commands, or systemctl status
StartsWithAllowedEntry(part) ==
    \/ FirstWord(part) \in {e \in AllowedShellCommands : FirstWord(e) = e}
    \/ FirstWord(part) = "systemctl" /\ SecondWord(part) = "status"

\* t is made only of allowed commands, whose arguments match no dangerous
\* pattern, joined by pipes
PipelineOfAllowed(t) ==
    \A part \in SegmentsOf(t) :
        StartsWithAllowedEntry(part) /\ ~Dangerous(part)

\* C12: the policy allows every shell_query whose target is made only of
\* allowed base commands, with arguments matching no dangerous pattern,
\* joined by pipes; this holds for the target the policy is handed by the
\* pipeline and for the candidate target with its pipes still in it.
C12_PipedAllowedCommandsAllowed ==
    (Decided /\ command.action = "shell_query") =>
        /\ PipelineOfAllowed(command.target) =>
              policy_result.allowed /\ ~policy_result.raised
        /\ PipelineOfAllowed(data.command.target) =>
              /\ VerdictOn(data.command.target).allowed
              /\ ~VerdictOn(data.command.target).raised

\* C12 witness: a target of three piped allowed commands was handed to the
\* policy
C12_Witness ==
    /\ Decided
    /\ command.action = "shell_query"
    /\ data.command.target = "ps aux | grep  | grep x"
    /\ Cardinality(SegmentsOf(data.command.target)) = 3
    /\ PipelineOfAllowed(data.command.target)
    /\ VerdictOn(data.command.target).allowed

\* C13: list_processes is allowed by the policy for every target and every
\* parameters value, also when the target names a blocked binary or a
\* protected name or matches a dangerous pattern.
C13_ListProcessesAllowed ==
    (Decided /\ command.action = "list_processes") =>
        /\ policy_result.allowed /\ ~policy_result.raised
        /\ VerdictOn(data.command.target) = Allowed

\* C13 witness: a list_processes whose target starts with a blocked binary
\* and matches a dangerous pattern was allowed
C13_Witness ==
    /\ Decided
    /\ command.action = "list_processes"
    /\ command.target = "rm -rf / /etc/passwd"
    /\ Dangerous(command.target)
    /\ policy_result.allowed

\* the language model has just answered with a candidate command, which
\* _parse_response has put through the schema
Validated ==
    /\ pc = "check"
    /\ data.command.present

\* C14: for every action, a candidate whose target is empty after
\* sanitization (empty, whitespace only, or only metacharacters and
\* whitespace) is rejected with the empty-target error, and no validated
\* command has an empty target.
C14_EmptyTargetRejected ==
    Validated =>
        /\ (Lower(data.command.action) \in CommandType
               /\ Strip(Sanitize(data.command.target)) = "") =>
              /\ ~llm_result.success
              /\ Contains(llm_result.error, "Target cannot be empty")
        /\ llm_result.command.ok => llm_result.command.target # ""

\* the shell metacharacters the specification lists for targets
ShellMetaCharacters ==
    {";", "&", "|", Backtick, "$", "(", ")", "{", "}", "[", "]", "<", ">",
     "!", "\\", "\"", "'"}

\* the number of characters of t that are not shell metacharacters: the
\* length of t once the metacharacters are removed
SanitizedLength(t) ==
    Cardinality({k \in 1..Len(t) : Char(t, k) \notin ShellMetaCharacters})

\* C15: every validated command has a target of at most 256 characters that
\* holds no shell metacharacter; a candidate whose target is longer than 256
\* characters once the metacharacters are removed is rejected with the
\* too-long error, and one whose target is then 256 characters or fewer is
\* not rejected for its length.
C15_TargetBoundedAndClean ==
    (Validated /\ Lower(data.command.action) \in CommandType) =>
        /\ llm_result.command.ok =>
              /\ Len(llm_result.command.target) <= 256
              /\ \A k \in 1..Len(llm_result.command.target) :
                     Char(llm_result.command.target, k)
                         \notin ShellMetaCharacters
        /\ (Strip(data.command.target) # ""
               /\ SanitizedLength(data.command.target) > 256) =>
              /\ ~llm_result.success
              /\ Contains(llm_result.error, "Target too long")
        /\ SanitizedLength(data.command.target) <= 256 =>
              (llm_result.success
                  \/ ~Contains(llm_result.error, "Target too long"))

\* C15 witness: a candidate target of 257 characters, 256 of them left once
\* the metacharacter is removed, was validated
C15_Witness ==
    /\ Validated
    /\ Len(data.command.target) = 257
    /\ SanitizedLength(data.command.target) = 256
    /\ llm_result.command.ok
    /\ Len(llm_result.command.target) = 256

\* the validated command handed to CommandRequest once more
Revalidated ==
    CommandRequest([present |-> TRUE,
                    action |-> llm_result.command.action,
                    target |-> llm_result.command.target,
                    parameters |-> llm_result.command.parameters])

\* C16: validating the action and the target of a validated command again
\* succeeds and yields the same action and the same target.
C16_ValidationIdempotent ==
    (Validated /\ llm_result.command.ok) =>
        /\ Revalidated.ok
        /\ Revalidated.action = llm_result.command.action
        /\ Revalidated.target = llm_result.command.target

\* the five action names of the specification
ActionNames ==
    {"start_app", "kill_process", "list_processes", "restart_service",
     "shell_query"}

\* a and b are the same string up to the case of their letters
EqualIgnoringCase(a, b) ==
    /\ Len(a) = Len(b)
    /\ \A k \in 1..Len(a) : LowerChar(Char(a, k)) = LowerChar(Char(b, k))

\* the action string matches one of the five action names ignoring case
KnownAction(a) == \E name \in ActionNames : EqualIgnoringCase(a, name)

\* C17: an action string that matches none of the five action names ignoring
\* case is rejected with the invalid-action error; one that matches is not
\* rejected for its action, and the validated command carries the canonical
\* name it matches.
C17_ActionIgnoringCase ==
    Validated =>
        /\ ~KnownAction(data.command.action) =>
              /\ ~llm_result.success
              /\ Contains(llm_result.error, "Invalid action")
        /\ KnownAction(data.command.action) =>
              /\ llm_result.success
                    \/ ~Contains(llm_result.error, "Invalid action")
              /\ llm_result.command.ok = validate_target(data.command.target).ok
        /\ llm_result.command.ok =>
              /\ llm_result.command.action \in ActionNames
              /\ EqualIgnoringCase(data.command.action,
                                   llm_result.command.action)

\* C17 witness: an action written in upper case was validated to its
\* canonical name
C17_Witness ==
    /\ Validated
    /\ data.command.action = "KILL_PROCESS"
    /\ llm_result.command.ok
    /\ llm_result.command.action = "kill_process"

\* the envelope of the current request says the request cannot be processed
\* or carries an error
UpstreamRefusal == data.cannot_process \/ data.error # None

\* C18: when the envelope has cannot_process set or a non-null error, its
\* command is not schema-validated, neither the policy nor the executor is
\* called, and the request ends in a failure that carries the upstream error
\* or the default text.
C18_UpstreamRefusalShortCircuits ==
    UpstreamRefusal =>
        /\ ~InTrace("schema")
        /\ ~InTrace("policy")
        /\ ~InTrace("execute")
        /\ pc \notin {"policy", "execute", "report"}
        /\ pc \in {"done", "exited"} =>
              /\ ~result.success
              /\ result.error
                     \in {data.error, "Request outside supported capabilities"}

\* the executor was reached and its outcome says success
ExecutedWithSuccess == InTrace("execute") /\ response.success

\* C19: the exit status of a single-command run is 0 exactly when the
\* executor was reached and its outcome has success set, and 1 otherwise; the
\* success of the result of process is the success of the outcome when there
\* is one and false when there is none.
C19_ExitCodeFollowsOutcome ==
    /\ pc = "exited" =>
          /\ exit_code \in {{0}, {1}}
          /\ exit_code = {0} <=> ExecutedWithSuccess
    /\ pc \in {"done", "exited"} =>
          /\ result.success = ExecutedWithSuccess
          /\ result.has_response = InTrace("execute")
    /\ pc \notin {"exited"} => exit_code = {}

\* C19 witness: a single-command run whose command was executed and failed
\* ended with status 1
C19_Witness ==
    /\ pc = "exited"
    /\ exit_code = {1}
    /\ InTrace("execute")
    /\ effects # <<>>
    /\ ~response.success

\* the executor has just returned from a shell_query whose child ran into
\* the timeout
ShellQueryTimedOut ==
    /\ pc = "report"
    /\ command.action = "shell_query"
    /\ \E i \in 1..Len(children) : children[i].timed_out

C21_FailureHasReason ==
    (pc \in {"done", "exited"} /\ ~result.success) =>
        /\ result.error # None
        /\ Strip(result.error) # ""

\* the number of times stage e occurs in the trace of the current request
Count(e) == Cardinality({i \in 1..Len(trace) : trace[i] = e})

\* the stages of one request in their order
StageOrder == <<"llm", "schema", "policy", "execute">>

\* C22: within one call of process the language model is queried at most
\* once, the policy is evaluated at most once and the executor is invoked at
\* most once, in this order; after a stage fails no later stage runs, and no
\* stage runs again.
C22_LinearNoRetries ==
    /\ \A e \in {"llm", "schema", "policy", "execute"} : Count(e) <= 1
    /\ \A i, j \in 1..Len(trace) :
          i < j => \E a, b \in 1..Len(StageOrder) :
                       a < b /\ StageOrder[a] = trace[i]
                             /\ StageOrder[b] = trace[j]
    /\ Len(effects) <= 2
    /\ (InTrace("llm") /\ pc # "check" /\ ~llm_result.success) =>
          (pc \in {"done", "exited"} /\ ~InTrace("policy")
              /\ ~InTrace("execute"))
    /\ (InTrace("policy") /\ Denied) =>
          (pc \in {"done", "exited"} /\ ~InTrace("execute"))
    /\ InTrace("execute") =>
          (pc \in {"report", "done", "exited"}
              /\ trace[Len(trace)] = "execute")
    /\ pc \in {"done", "exited"} => (result.success => InTrace("execute"))

\* C22 witness: a request ended at the policy, which denied it, after one
\* query of the language model
C22_Witness ==
    /\ pc = "done"
    /\ trace = <<"llm", "schema", "policy">>
    /\ Denied
    /\ ~result.success
    /\ mode = "interactive"

\* the policy has just evaluated the current command, inside process or for
\* a caller of the module function
Evaluated == Decided \/ pc = "evaluated"

\* the rule identifiers a denial can carry
RuleIdentifiers ==
    {"blocked_application", "protected_process", "protected_service",
     "disallowed_shell_command", "dangerous_pattern", "unknown_command_type"}

WireShape ==
    [present |-> TRUE,
     action |-> CHOOSE name \in CommandType : name = llm_result.command.action,
     target |-> llm_result.command.target,
     parameters |-> llm_result.command.parameters]

\* C24: a candidate that validates, written back to wire shape and validated
\* again, gives the same action and the same sanitized target as the first
\* validation.
C24_RoundTrip ==
    (Validated /\ llm_result.command.ok) =>
        LET second == CommandRequest(WireShape)
        IN  /\ second.ok
            /\ second.action = llm_result.command.action
            /\ second.target = llm_result.command.target
            /\ second.target = Strip(Sanitize(data.command.target))

\* t holds a chaining character other than the pipe
HasChaining(t) == \E k \in 1..Len(t) : Char(t, k) \in {";", "&"}

\* C25: a shell_query whose target holds "&&", or any & or ;, is denied with
\* rule dangerous_pattern whatever its base commands are: both when the
\* policy is handed the target as it is and when the target went through
\* CommandRequest first.
C25_ChainingDeniedFirst ==
    /\ (pc = "evaluated" /\ command.action = "shell_query"
           /\ HasChaining(command.target)) =>
          /\ policy_result.raised
          /\ policy_result.rule = "dangerous_pattern"
    /\ (Decided /\ command.action = "shell_query"
           /\ HasChaining(data.command.target)) =>
          /\ policy_result.raised
          /\ policy_result.rule = "dangerous_pattern"

\* the executor has just returned from a kill_process it really ran
KillProcessRan ==
    /\ pc = "report"
    /\ command.action = "kill_process"
    /\ ~executor.context.dry_run
    /\ effects # <<>>

\* the signal the command asks for: parameters.signal when present, TERM
\* when absent
RequestedSignal ==
    IF command.parameters.signal # None THEN command.parameters.signal
    ELSE "TERM"

\* the signal-delivery calls among the children of the execution
SignalCalls == {i \in 1..Len(effects) : SubSeq(effects[i], 1, 5) = "pkill"}

\* C26: kill_process looks the processes up before it signals anything; when
\* the lookup finds no match the outcome is a failure and no signal-delivery
\* call is made; when it finds one, exactly one signal-delivery call follows,
\* with parameters.signal when present and TERM when absent, and a non-zero
\* status of that call comes back as a failure carrying that status.
C26_LookupBeforeSignal ==
    KillProcessRan =>
        /\ effects[1] = "pgrep -f"
        /\ \A i \in SignalCalls : i = 2
        /\ children[1].status \notin {{}, {0}} =>
              /\ SignalCalls = {}
              /\ ~response.success
              /\ Contains(response.error, "No process found")
        /\ children[1].status = {} => (SignalCalls = {} /\ ~response.success)
        /\ children[1].status = {0} =>
              /\ SignalCalls = {2}
              /\ Len(effects) = 2
              /\ effects[2] = "pkill -" \o RequestedSignal \o " -f"
              /\ children[2].status = {0} =>
                    (response.success /\ response.exit_code = {0})
              /\ children[2].status \notin {{}, {0}} =>
                    /\ ~response.success
                    /\ response.exit_code = children[2].status
                    /\ Contains(response.error, "Failed to kill process")

\* C26 witness: a kill_process with parameters.signal KILL found the process
\* and the signal-delivery call failed with status 3
C26_Witness ==
    /\ KillProcessRan
    /\ command.parameters.signal = "KILL"
    /\ effects = <<"pgrep -f", "pkill -KILL -f">>
    /\ children[2].status = {3}
    /\ response.exit_code = {3}

\* the executor has just returned from a restart_service it really ran
RestartServiceRan ==
    /\ pc = "report"
    /\ command.action = "restart_service"
    /\ ~executor.context.dry_run
    /\ effects # <<>>

\* the restart commands among the children of the execution
RestartCalls == {i \in 1..Len(effects) : effects[i] = "systemctl restart"}

\* the standard error of a failed restart speaks of missing privileges
MentionsPermission(stderr) ==
    \/ Contains(stderr, "Access denied")
    \/ Contains(Lower(stderr), "authentication required")

\* C27: restart_service queries the status of the unit before it restarts
\* it; on the not-found status 4 the outcome is a 'not found' failure and no
\* restart is issued; otherwise exactly one restart is issued, and a non-zero
\* status of the restart is reported as a permission failure when its
\* standard error mentions access denied or authentication required, and as
\* a failure carrying the standard error otherwise.
C27_StatusBeforeRestart ==
    RestartServiceRan =>
        /\ effects[1] = "systemctl status"
        /\ \A i \in RestartCalls : i = 2
        /\ children[1].status = {4} =>
              /\ RestartCalls = {}
              /\ ~response.success
              /\ Contains(response.error, "not found")
        /\ children[1].status = {} =>
              (RestartCalls = {} /\ ~response.success)
        /\ children[1].status \notin {{}, {4}} =>
              /\ RestartCalls = {2}
              /\ Len(effects) = 2
              /\ ~Contains(response.error, "not found")
              /\ children[2].status = {0} => response.success
              /\ children[2].status \notin {{}, {0}} =>
                    /\ ~response.success
                    /\ response.exit_code = children[2].status
                    /\ IF MentionsPermission(children[2].stderr)
                       THEN Contains(response.error, "Permission denied")
                       ELSE \/ response.error = Strip(children[2].stderr)
                            \/ /\ Strip(children[2].stderr) = ""
                               /\ response.error = "Failed to restart service"

\* C27 witness: the unit was found inactive (status 3) and its restart
\* failed for missing privileges
C27_Witness ==
    /\ RestartServiceRan
    /\ effects = <<"systemctl status", "systemctl restart">>
    /\ children[1].status = {3}
    /\ children[2].status = {1}
    /\ children[2].stderr = "Interactive Authentication Required."
    /\ Contains(response.error, "Permission denied")

\* the executor has just returned from a list_processes or a shell_query
\* whose child ended within its time
OutputCaptured ==
    /\ pc = "report"
    /\ command.action \in {"list_processes", "shell_query"}
    /\ Len(children) = 1
    /\ ~children[1].timed_out

\* C28: for list_processes and shell_query the output holds at most
\* max_output_lines lines of the captured standard output; the truncation
\* marker is appended exactly when more than max_output_lines lines were
\* captured, after the first max_output_lines of them; an output of
\* max_output_lines lines or fewer comes back uncut and without the marker.
C28_OutputTruncated ==
    OutputCaptured =>
        /\ response.stdout_lines <= executor.max_output_lines
        /\ response.marker <=>
              children[1].lines > executor.max_output_lines
        /\ response.marker =>
              response.stdout_lines = executor.max_output_lines
        /\ children[1].lines <= executor.max_output_lines =>
              /\ response.stdout_lines = children[1].lines
              /\ ~response.marker

\* C28 witness: a list_processes captured exactly max_output_lines lines and
\* returned them without the marker
C28_Witness ==
    /\ OutputCaptured
    /\ command.action = "list_processes"
    /\ children[1].lines = executor.max_output_lines
    /\ response.stdout_lines = executor.max_output_lines
    /\ ~response.marker

\* the names of the processes that must never be signalled
NeverSignalled ==
    {"init", "systemd", "dbus", "udev", "kthreadd", "kworker", "ksoftirqd"}

\* pkill ran for an approved kill_process and reported that it signalled
\* what its pattern matched
SignalDelivered ==
    /\ KillProcessRan
    /\ policy_result.allowed
    /\ Len(children) = 2
    /\ children[2].status = {0}

\* C29: no kill_process the policy approves signals a protected process: the
\* processes that `pkill -f` matches on their full command line for an
\* approved target include none named init, systemd, dbus, udev, kthreadd,
\* kworker or ksoftirqd.
C29_ProtectedNeverSignalled ==
    SignalDelivered =>
        \A p \in MatchedByPattern(Strip(command.target)) :
            p.name \notin NeverSignalled

\* the position in said of the user message of the latest chat call
LatestUser ==
    IF said[Len(said)].role = "user" THEN Len(said) ELSE Len(said) - 1

\* C30: the chat history is bounded: the messages passed to ollama.chat are
\* at most history_limit, end with the current user message and are the
\* latest messages in their order (the oldest are the ones dropped); the
\* stored history never has more than history_limit + 1 entries and is
\* always the latest part of everything that was appended.
C30_HistoryBounded ==
    /\ Len(client.history) <= client.history_limit + 1
    /\ client.history = LastN(said, Len(client.history))
    /\ Len(client.history) = 0 => said = <<>>
    /\ said # <<>> =>
          /\ messages # <<>>
          /\ Len(messages) <= client.history_limit
          /\ messages[Len(messages)] = said[LatestUser]
          /\ messages =
                SubSeq(said, LatestUser - Len(messages) + 1, LatestUser)

\* C30 witness: with the limit of __init__, a chat call pruned the history:
\* history_limit messages were passed and older ones are gone
C30_Witness ==
    /\ client.history_limit = history_limit
    /\ Len(messages) = history_limit
    /\ Len(client.history) = history_limit + 1
    /\ Len(said) > Len(client.history)

====
